---- MODULE Spec2Model ----
(***************************************************************************)
(* fnkey: hold a modifier key, speak, paste the transcribed text.          *)
(*                                                                         *)
(* The model follows src/src/main.rs: the event-tap callback of            *)
(* run_event_tap (edge detection and polish latch), start_recording /      *)
(* init_audio_stream / stop_recording (the microphone stream and the       *)
(* shared sample buffer), the audio-driver input callback, and the         *)
(* background thread running transcribe_and_paste (encode, transcription   *)
(* request, optional polish request, clipboard write, paste keystroke).    *)
(*                                                                         *)
(* Three kinds of thread interleave: the run-loop thread (the callback,    *)
(* which sleeps 50 ms inside stop_recording), the audio-driver thread and  *)
(* one spawned thread per recording.                                       *)
(***************************************************************************)
EXTENDS Integers, Sequences, FiniteSets, TLC

\* ------------------------------------------------------------------------
\* Bounds of the model
\* ------------------------------------------------------------------------

\* Key edges (Pressed or Released) handled in one behaviour.
MaxEdges == 4


\* Chunks the sample buffer and the running callback hold at most (the driver
\* delivers no more).
MaxChunks == 1

\* Samples of the recordings the encoder is run on.
MaxSamples == 2

\* ------------------------------------------------------------------------
\* Modifier flags and configuration (main.rs 139-206)
\* ------------------------------------------------------------------------

\* CGEventFlags bits; a flags value is modelled as the set of bits it holds,
\* so (flags & mask) != 0 is mask \in flags for a single-bit mask.
FN_KEY_FLAG == 8388608
OPTION_KEY_FLAG == 524288
CONTROL_KEY_FLAG == 262144
SHIFT_KEY_FLAG == 131072
COMMAND_KEY_FLAG == 1048576

\* Config.hotkey values the behaviours start from.
Hotkeys == {"fn", "control"}

\* Flag bits the delivered snapshots are built from.
SnapshotBits == {FN_KEY_FLAG, CONTROL_KEY_FLAG, SHIFT_KEY_FLAG}

\* Config::hotkey_flag
hotkey_flag(h) ==
    CASE h = "option" -> OPTION_KEY_FLAG
      [] h = "control" -> CONTROL_KEY_FLAG
      [] h = "shift" -> SHIFT_KEY_FLAG
      [] h = "command" -> COMMAND_KEY_FLAG
      [] OTHER -> FN_KEY_FLAG

\* Mutant: the polish modifier is Ctrl whatever the hotkey.
polish_flag_AlwaysControl(h) == CONTROL_KEY_FLAG

\* Config::polish_flag
polish_flag(h) ==
    IF h = "control" THEN SHIFT_KEY_FLAG ELSE CONTROL_KEY_FLAG

\* (flags & mask) != 0
FlagSet(flags, mask) == mask \in flags

\* ------------------------------------------------------------------------
\* Texts: sequences of tokens
\* ------------------------------------------------------------------------

\* Clipboard content before any unit wrote to it.
OldClipboard == <<"old">>

IsSpace(tok) == tok = " "

RECURSIVE TrimStart(_)
\* str::trim_start
TrimStart(s) ==
    IF s # <<>> /\ IsSpace(Head(s)) THEN TrimStart(Tail(s)) ELSE s

RECURSIVE TrimEnd(_)
\* the trailing half of str::trim
TrimEnd(s) ==
    IF s # <<>> /\ IsSpace(s[Len(s)]) THEN TrimEnd(SubSeq(s, 1, Len(s) - 1)) ELSE s

\* str::trim
Trim(s) == TrimEnd(TrimStart(s))

\* raw.trim_start().starts_with('{')
StartsWithBrace(raw) ==
    LET t == TrimStart(raw) IN t # <<>> /\ Head(t) = "{"

\* JSON values of the token language: "h" is the string literal "h", "e" the
\* empty string literal, "1" a number.
JsonValues == {"h", "e", "1"}

\* serde_json::from_str::<Value>: the documents of the token language are
\* { "text": v }, written <<"{", "t", v, "}">>, and an object without a text
\* member, <<"{", "x", "}">>; everything else is a parse error.
JsonParse(s) ==
    IF Len(s) = 4 /\ s[1] = "{" /\ s[2] = "t" /\ s[3] \in JsonValues /\ s[4] = "}"
    THEN [ok |-> TRUE, has_text |-> TRUE, value |-> s[3]]
    ELSE IF s = <<"{", "x", "}">>
         THEN [ok |-> TRUE, has_text |-> FALSE, value |-> "1"]
         ELSE [ok |-> FALSE, has_text |-> FALSE, value |-> "1"]

\* v.get("text")?.as_str().map(String::from): <<TRUE, text>> or <<FALSE, <<>> >>
JsonTextField(doc) ==
    IF doc.ok /\ doc.has_text /\ doc.value \in {"h", "e"}
    THEN <<TRUE, IF doc.value = "h" THEN <<"h">> ELSE <<>> >>
    ELSE <<FALSE, <<>> >>

\* Transcription response bodies the service is taken to return.
Bodies ==
    { <<" ", "h", " ">>,            \* plain text with surrounding whitespace
      <<" ">>,                      \* whitespace only
      <<"{", "t", "h", "}">>,       \* {"text":"h"}
      <<"{", "t", "1", "}">>,       \* {"text":1}
      <<"{", "x", "}">>,            \* an object without text
      <<"{", "t", "h">> }           \* cut off: not parseable

\* Mutant: a body that looks like JSON and has no string text gives no text.
ExtractText_Strict(raw) ==
    IF StartsWithBrace(raw)
    THEN JsonTextField(JsonParse(Trim(raw)))[2]
    ELSE Trim(raw)

\* The text transcribe_and_paste takes from a response body (main.rs 627-634).
ExtractText(raw) ==
    IF StartsWithBrace(raw)
    THEN LET f == JsonTextField(JsonParse(Trim(raw)))
         IN  IF f[1] THEN f[2] ELSE Trim(raw)
    ELSE Trim(raw)

\* ------------------------------------------------------------------------
\* HTTP responses
\* ------------------------------------------------------------------------

\* resp.status().is_success()
IsSuccess(status) == status >= 200 /\ status <= 299

\* What .send() and resp.text() can give for the transcription request.
TrResponses ==
    { [send |-> s, status |-> 0, read_ok |-> FALSE, body |-> <<>>] :
        s \in {"transport", "timeout"} }
    \cup { [send |-> "ok", status |-> 500, read_ok |-> TRUE, body |-> <<"h">>] }
    \cup { [send |-> "ok", status |-> 200, read_ok |-> FALSE, body |-> <<>>] }
    \cup { [send |-> "ok", status |-> 200, read_ok |-> TRUE, body |-> b] : b \in Bodies }

\* What the polish request can give: json is "malformed", "empty" (no choice)
\* or "choices" (choices[0].message.content = content).
PolishResponses ==
    { [send |-> s, status |-> 0, json |-> "malformed", content |-> <<>>] :
        s \in {"transport", "timeout"} }
    \cup { [send |-> "ok", status |-> 500, json |-> "choices", content |-> <<"p">>] }
    \cup { [send |-> "ok", status |-> 200, json |-> j, content |-> <<>>] :
             j \in {"malformed", "empty"} }
    \cup { [send |-> "ok", status |-> 200, json |-> "choices", content |-> <<"p">>] }

\* Mutant: the status of the polish response is not looked at.
polish_text_NoStatusCheck(resp) ==
    IF resp.send # "ok" THEN <<FALSE, <<>> >>
    ELSE IF resp.json = "malformed" THEN <<FALSE, <<>> >>
    ELSE IF resp.json = "empty" THEN <<FALSE, <<>> >>
    ELSE <<TRUE, resp.content>>

\* polish_text: <<TRUE, content>> for Some(content), <<FALSE, <<>> >> for None.
polish_text(resp) ==
    IF resp.send # "ok" THEN <<FALSE, <<>> >>
    ELSE IF ~IsSuccess(resp.status) THEN <<FALSE, <<>> >>
    ELSE IF resp.json = "malformed" THEN <<FALSE, <<>> >>
    ELSE IF resp.json = "empty" THEN <<FALSE, <<>> >>
    ELSE <<TRUE, resp.content>>

\* ------------------------------------------------------------------------
\* enhance_audio and encode_wav (main.rs 735-795)
\* ------------------------------------------------------------------------

\* f32 amplitudes and gains are fixed-point numbers in thousandths: Unit is 1.0.
Unit == 1000

Abs(x) == IF x < 0 THEN -x ELSE x
Min(x, y) == IF x < y THEN x ELSE y
Max(x, y) == IF x > y THEN x ELSE y

\* n / d rounded to the nearest integer, halves away from zero (d > 0): the
\* rounding of an f32 operation at this resolution, and f32::round.
RoundDiv(n, d) ==
    IF n >= 0 THEN (2 * n + d) \div (2 * d) ELSE -((2 * (-n) + d) \div (2 * d))

\* n / d with the fraction dropped (d > 0): a float-to-integer `as` cast.
TruncDiv(n, d) ==
    IF n >= 0 THEN n \div d ELSE -((-n) \div d)

RECURSIVE Sum(_)
\* samples.iter().sum::<f32>()
Sum(samples) ==
    IF samples = <<>> THEN 0 ELSE Head(samples) + Sum(Tail(samples))

\* 1. DC offset removal: s - mean
DcRemoved(samples) ==
    LET mean == RoundDiv(Sum(samples), Len(samples))
    IN  [i \in 1..Len(samples) |-> samples[i] - mean]

\* a = exp(-2 pi fc / sample_rate) for fc = 80 Hz, in thousandths
HighPassCoeff(rate) ==
    CASE rate = 48000 -> 990
      [] rate = 44100 -> 989
      [] OTHER -> 990

RECURSIVE HighPass(_, _, _, _)
\* 2. the first-order high-pass filter: y = a * (prev_y + x - prev_x)
HighPass(xs, a, prev_x, prev_y) ==
    IF xs = <<>> THEN <<>>
    ELSE LET x == Head(xs)
             y == RoundDiv(a * (prev_y + x - prev_x), Unit)
         IN  <<y>> \o HighPass(Tail(xs), a, x, y)

RECURSIVE FoldMax(_, _)
\* .map(|&s| s.abs()).fold(acc, f32::max)
FoldMax(ss, acc) ==
    IF ss = <<>> THEN acc ELSE FoldMax(Tail(ss), Max(acc, Abs(Head(ss))))

\* let peak = filtered.iter().map(|&s| s.abs()).fold(1.0_f32, f32::max)
Peak(filtered) == FoldMax(filtered, Unit)

\* let target = 0.707_f32
target == 707

\* raw_gain.min(4.0)
MaxGain == 4000

\* if gain > 1.05
GainThreshold == 1050

\* let gain = (target / peak).min(4.0)
Gain(peak) == Min(RoundDiv(target * Unit, peak), MaxGain)

\* .clamp(-1.0, 1.0)
Clamp(x) == Max(-Unit, Min(Unit, x))

\* 3. peak normalization of the filtered signal (main.rs 759-770)
Normalize(filtered) ==
    LET gain == Gain(Peak(filtered))
    IN  IF gain > GainThreshold
        THEN [i \in 1..Len(filtered) |-> Clamp(RoundDiv(filtered[i] * gain, Unit))]
        ELSE [i \in 1..Len(filtered) |-> Clamp(filtered[i])]

\* The signal after steps 1 and 2 of enhance_audio.
Filtered(samples, rate) ==
    IF samples = <<>> THEN <<>>
    ELSE HighPass(DcRemoved(samples), HighPassCoeff(rate), 0, 0)

\* enhance_audio
enhance_audio(samples, rate) ==
    IF samples = <<>> THEN <<>> ELSE Normalize(Filtered(samples, rate))

\* i16::MAX, the factor of the conversion
I16Max == 32767

\* (sample * 32767.0) as i16: the fraction is dropped, the value saturates
SampleToI16(sample) ==
    Max(-I16Max - 1, Min(I16Max, TruncDiv(sample * I16Max, Unit)))

\* ------------------------------------------------------------------------
\* State
\* ------------------------------------------------------------------------

VARIABLES
    hotkey,          \* state.config.hotkey
    was_pressed,     \* AtomicBool of run_event_tap
    polish_latched,  \* AtomicBool of run_event_tap
    tap_pc,          \* "idle", or "sleep" inside stop_recording's 50 ms delay
    tap_flags,       \* the flags of the callback in progress
    stop_polish,     \* the polish argument of the stop_recording in progress
    AUDIO_STREAM,    \* "none" | "paused" | "playing"
    sample_rate,     \* state.sample_rate
    audio_buffer,    \* state.audio_buffer: chunks, each the session it was captured in
    in_flight,       \* the chunk whose callback is running on the driver's thread,
                     \* before it took the buffer's mutex: <<>> or one chunk
    units,           \* the spawned threads, in spawn order
    clipboard,       \* the system clipboard
    encoder,         \* one call of encode_wav, followed statement by statement
    edges,           \* log: the start_recording / stop_recording calls made
    last_level,      \* log: hotkey level of the last snapshot delivered
    held_polish      \* log: a snapshot of this session had the polish bit set

vars ==
    <<hotkey, was_pressed, polish_latched, tap_pc, tap_flags, stop_polish, AUDIO_STREAM,
      sample_rate, audio_buffer, in_flight, units, clipboard, encoder, edges,
      last_level, held_polish>>

tapVars == <<was_pressed, polish_latched, tap_pc, tap_flags, stop_polish>>
audioVars == <<AUDIO_STREAM, sample_rate, audio_buffer, in_flight>>
logVars == <<edges, last_level, held_polish>>

\* AtomicU32::new(48000) in main
DefaultSampleRate == 48000

\* The input device's default sample rate.
DeviceSampleRate == 44100

\* Sessions started so far: the Pressed edges.
CurSession == Cardinality({i \in 1..Len(edges) : edges[i].kind = "Pressed"})

\* No call of encode_wav is followed.
EncoderIdle ==
    [ pc |-> "idle", samples |-> <<>>, sample_rate |-> DefaultSampleRate,
      filtered |-> <<>>, enhanced |-> <<>>, pcm |-> <<>>, result |-> "none" ]

Init ==
    /\ encoder = EncoderIdle
    /\ hotkey \in Hotkeys
    /\ was_pressed = FALSE
    /\ polish_latched = FALSE
    /\ tap_pc = "idle"
    /\ tap_flags = {}
    /\ stop_polish = FALSE
    /\ AUDIO_STREAM = "none"
    /\ sample_rate = DefaultSampleRate
    /\ audio_buffer = <<>>
    /\ in_flight = <<>>
    /\ units = <<>>
    /\ clipboard = OldClipboard
    /\ edges = <<>>
    /\ last_level = FALSE
    /\ held_polish = FALSE

\* ------------------------------------------------------------------------
\* The event-tap callback (main.rs 451-476)
\* ------------------------------------------------------------------------

\* let key_pressed = (flags & hotkey_flag) != 0
KeyPressed(flags) == FlagSet(flags, hotkey_flag(hotkey))

\* let polish_held = (flags & polish_flag) != 0
PolishHeld(flags) == FlagSet(flags, polish_flag(hotkey))

\* Mutant: the press test without the previous level.
IsPressEdge_NoPrev(key_pressed, prev_pressed) == key_pressed

\* if key_pressed && !prev_pressed
IsPressEdge(key_pressed, prev_pressed) == key_pressed /\ ~prev_pressed

\* Mutant: the release test without the previous level.
IsReleaseEdge_NoPrev(key_pressed, prev_pressed) == ~key_pressed

\* else if !key_pressed && prev_pressed
IsReleaseEdge(key_pressed, prev_pressed) ==
    ~key_pressed /\ prev_pressed

\* Mutant: the latch is not reset on the press edge.
LatchOnPress_Keep(latched) == latched

\* polish_latched_clone.store(false) on the press edge
LatchOnPress(latched) == FALSE

\* if key_pressed && polish_held { polish_latched_clone.store(true) }
LatchAfter(latched, key_pressed, polish_held) ==
    IF key_pressed /\ polish_held THEN TRUE ELSE latched

\* was_pressed_clone.store(key_pressed)
WasPressedAfter(key_pressed) == key_pressed

\* ---- init_audio_stream (main.rs 505-544)

\* What the host and the device can answer.
InitOutcomes == {"no_device", "no_config", "build_err", "ok"}

\* Mutant: a stream is stored although build_input_stream failed.
StreamAfterInit_StoreAnyway(outcome) ==
    IF outcome \in {"build_err", "ok"} THEN "paused" ELSE "none"

\* AUDIO_STREAM = stream: Some only when build_input_stream succeeded; the
\* stream is stored without being started.
StreamAfterInit(outcome) == IF outcome = "ok" THEN "paused" ELSE "none"

\* state.sample_rate.store(actual_sample_rate), once the device gave a config
RateAfterInit(outcome, rate) ==
    IF outcome \in {"build_err", "ok"} THEN DeviceSampleRate ELSE rate

\* ---- start_recording (main.rs 546-564)

\* buffer.clear()
BufferAfterStart(buffer) == <<>>

\* Mutant: the stream is created on every press.
ShouldInit_Always(stream) == TRUE

\* if AUDIO_STREAM.is_none()
ShouldInit(stream) == stream = "none"

\* if AUDIO_STREAM.is_none() { init_audio_stream(state) }
StreamAfterEnsure(stream, outcome) ==
    IF ShouldInit(stream) THEN StreamAfterInit(outcome) ELSE stream

\* The sample rate after the same statement.
RateAfterEnsure(stream, outcome, rate) ==
    IF ShouldInit(stream) THEN RateAfterInit(outcome, rate) ELSE rate

\* log: what start_recording did about the stream: "skipped" init_audio_stream,
\* or called it and it "failed" or "created" a stream.
InitAttempt(stream, outcome) ==
    IF ~ShouldInit(stream) THEN "skipped"
    ELSE IF outcome = "ok" THEN "created" ELSE "failed"

\* if let Some(ref s) = AUDIO_STREAM { s.play() }; the result of play() is
\* discarded, the call is taken to start the stream.
StreamAfterPlay(stream) == IF stream = "none" THEN "none" ELSE "playing"

\* ---- stop_recording (main.rs 566-595)

\* Mutant: the stream is left playing.
StreamAfterPause_Keep(stream) == stream

\* if let Some(ref s) = AUDIO_STREAM { s.pause() }; the result of pause() is
\* discarded, the call is taken to stop the delivery.
StreamAfterPause(stream) == IF stream = "none" THEN "none" ELSE "paused"

\* Mutant: the emptiness check is missing.
ShouldSpawn_Always(audio_data) == TRUE

\* if audio_data.is_empty() { return }, else thread::spawn
ShouldSpawn(audio_data) == audio_data # <<>>

\* The thread stop_recording spawns: the arguments of transcribe_and_paste and
\* the thread's position and results so far.
NewUnit(audio_data, rate, polish, session) ==
    [ session |-> session,        \* log: the recording it belongs to
      audio |-> audio_data,
      sample_rate |-> rate,
      polish |-> polish,
      pc |-> "encode",
      tr |-> "none",              \* log: outcome of the transcription call
      raw |-> <<>>,               \* its response body
      text |-> <<>>,
      pol |-> "none",             \* log: polish_text gave "None" or "Some"
      final_text |-> <<>>,
      clip |-> "none",            \* log: outcome of the clipboard write
      written |-> <<>>,           \* log: the clipboard as this unit's write left it
      tr_requests |-> 0,          \* log: requests and effects so far
      polish_requests |-> 0,
      clip_writes |-> 0,
      keystrokes |-> 0 ]

\* Mutant: the thread is spawned a second time.
UnitsAfterStop_Twice(us, audio_data, rate, polish, session) ==
    IF audio_data # <<>>
    THEN us \o << NewUnit(audio_data, rate, polish, session),
                  NewUnit(audio_data, rate, polish, session) >>
    ELSE us

\* Mutant: the threads read the sample rate and the polish flag of the latest
\* stop_recording instead of their own copies.
UnitsAfterStop_Shared(us, audio_data, rate, polish, session) ==
    IF audio_data # <<>>
    THEN Append([k \in 1..Len(us) |-> [us[k] EXCEPT !.sample_rate = rate,
                                                     !.polish = polish]],
                NewUnit(audio_data, rate, polish, session))
    ELSE us

\* The units after stop_recording took its snapshot.
UnitsAfterStop(us, audio_data, rate, polish, session) ==
    IF ShouldSpawn(audio_data)
    THEN Append(us, NewUnit(audio_data, rate, polish, session))
    ELSE us

\* An entry of the log of start_recording / stop_recording calls.
Edge(kind, polish, prev, cur, held, init) ==
    [ kind |-> kind, polish |-> polish, prev |-> prev, cur |-> cur, held |-> held,
      init |-> init, returned |-> kind = "Pressed", snapshot |-> <<>> ]

\* log: whether a snapshot of the session so far had the polish bit set while
\* the hotkey was held, from the level of the snapshot before.
HeldAfter(held, prev, flags) ==
    LET cur == KeyPressed(flags)
    IN  IF cur /\ ~prev THEN PolishHeld(flags)
        ELSE IF cur THEN held \/ PolishHeld(flags)
        ELSE held

\* One FlagsChanged event: the whole callback, except that on a release edge it
\* stops inside stop_recording's sleep and StopRecordingWake does the rest.
EventTapCallback(flags) ==
    LET key_pressed == KeyPressed(flags)
        polish_held == PolishHeld(flags)
        prev_pressed == was_pressed
    IN
    /\ tap_pc = "idle"
    /\ last_level' = key_pressed
    /\ held_polish' = HeldAfter(held_polish, last_level, flags)
    /\ UNCHANGED <<hotkey, units, clipboard, encoder, in_flight>>
    /\ IF IsPressEdge(key_pressed, prev_pressed)
       THEN /\ Len(edges) < MaxEdges
            /\ \E outcome \in InitOutcomes :
                 LET ensured == StreamAfterEnsure(AUDIO_STREAM, outcome)
                 IN  /\ AUDIO_STREAM' = StreamAfterPlay(ensured)
                     /\ sample_rate' = RateAfterEnsure(AUDIO_STREAM, outcome, sample_rate)
                     /\ edges' = Append(edges,
                          Edge("Pressed", FALSE, last_level, key_pressed, FALSE,
                               InitAttempt(AUDIO_STREAM, outcome)))
            /\ audio_buffer' = BufferAfterStart(audio_buffer)
            /\ polish_latched' =
                 LatchAfter(LatchOnPress(polish_latched), key_pressed, polish_held)
            /\ was_pressed' = WasPressedAfter(key_pressed)
            /\ UNCHANGED <<tap_pc, tap_flags, stop_polish>>
       ELSE IF IsReleaseEdge(key_pressed, prev_pressed)
       THEN /\ Len(edges) < MaxEdges
            /\ stop_polish' = polish_latched
            /\ AUDIO_STREAM' = StreamAfterPause(AUDIO_STREAM)
            /\ tap_pc' = "sleep"
            /\ tap_flags' = flags
            /\ edges' = Append(edges,
                 Edge("Released", polish_latched, last_level, key_pressed, held_polish,
                      "skipped"))
            /\ UNCHANGED <<was_pressed, polish_latched, sample_rate, audio_buffer>>
       ELSE /\ polish_latched' = LatchAfter(polish_latched, key_pressed, polish_held)
            /\ was_pressed' = WasPressedAfter(key_pressed)
            /\ UNCHANGED <<tap_pc, tap_flags, stop_polish, AUDIO_STREAM, sample_rate,
                           audio_buffer, edges>>

\* stop_recording after its sleep: snapshot, spawn; then the rest of the callback.
StopRecordingWake ==
    LET key_pressed == KeyPressed(tap_flags)
        polish_held == PolishHeld(tap_flags)
        audio_data == audio_buffer
    IN
    /\ tap_pc = "sleep"
    /\ units' = UnitsAfterStop(units, audio_data, sample_rate, stop_polish, CurSession)
    /\ edges' = [edges EXCEPT ![Len(edges)].returned = TRUE,
                              ![Len(edges)].snapshot = audio_data]
    /\ polish_latched' = LatchAfter(polish_latched, key_pressed, polish_held)
    /\ was_pressed' = WasPressedAfter(key_pressed)
    /\ tap_pc' = "idle"
    /\ tap_flags' = {}
    /\ UNCHANGED <<hotkey, stop_polish, audioVars, clipboard, encoder, last_level,
                   held_polish>>

\* ------------------------------------------------------------------------
\* The audio driver (main.rs 527-538)
\* ------------------------------------------------------------------------

\* The driver captures a chunk while the stream plays and calls the input
\* callback with it; its thread runs one callback at a time.
DriverCapture ==
    /\ AUDIO_STREAM = "playing"
    /\ in_flight = <<>>
    /\ Len(audio_buffer) + Len(in_flight) < MaxChunks
    /\ in_flight' = Append(in_flight, CurSession)
    /\ UNCHANGED <<hotkey, tapVars, AUDIO_STREAM, sample_rate, audio_buffer, units,
                   clipboard, encoder, logVars>>

\* buf.extend_from_slice(data)
BufferAfterCallback(buffer, data) == Append(buffer, data)

\* The input callback, under the buffer's mutex.
AudioCallback ==
    /\ in_flight # <<>>
    /\ audio_buffer' = BufferAfterCallback(audio_buffer, Head(in_flight))
    /\ in_flight' = Tail(in_flight)
    /\ UNCHANGED <<hotkey, tapVars, AUDIO_STREAM, sample_rate, units, clipboard, encoder,
                   logVars>>

\* ------------------------------------------------------------------------
\* A background thread: transcribe_and_paste (main.rs 597-653)
\* ------------------------------------------------------------------------

\* transcribe_and_paste returns and the thread ends: its strings are dropped,
\* the log of what it did stays.
Returned(u) ==
    [u EXCEPT !.pc = "done", !.raw = <<>>, !.text = <<>>, !.final_text = <<>>,
              !.written = <<>>]

\* Mutant: the request is sent although encode_wav failed.
AfterEncode_SendAnyway(u, encoded_ok) ==
    [u EXCEPT !.pc = "transcribe", !.tr_requests = @ + 1]

\* encode_wav, then the transcription request is sent (main.rs 598-620).
AfterEncode(u, encoded_ok) ==
    IF encoded_ok
    THEN [u EXCEPT !.pc = "transcribe", !.tr_requests = @ + 1]
    ELSE Returned(u)

\* Mutant: the polish request goes out whatever the flag.
AfterText_AlwaysPolish(u) ==
    [u EXCEPT !.pc = "polish", !.polish_requests = @ + 1]

\* The polish request goes out only for polish = true (main.rs 638-642).
AfterText(u) ==
    IF u.polish
    THEN [u EXCEPT !.pc = "polish", !.polish_requests = @ + 1]
    ELSE [u EXCEPT !.pc = "clipboard", !.final_text = u.text]

\* Mutant: the status of the transcription response is not looked at.
AfterTranscription_NoStatusCheck(u, resp) ==
    IF resp.send # "ok" THEN Returned([u EXCEPT !.tr = "send_err"])
    ELSE IF ~resp.read_ok THEN Returned([u EXCEPT !.tr = "read_err"])
    ELSE LET text == ExtractText(resp.body)
             got == [u EXCEPT !.tr = IF IsSuccess(resp.status) THEN "ok" ELSE "status",
                              !.raw = resp.body, !.text = text]
         IN  IF text # <<>> THEN AfterText(got) ELSE Returned(got)

\* Mutant: an empty transcript is delivered like any other.
AfterTranscription_NoEmptyCheck(u, resp) ==
    IF resp.send # "ok" THEN Returned([u EXCEPT !.tr = "send_err"])
    ELSE IF ~IsSuccess(resp.status) THEN Returned([u EXCEPT !.tr = "status"])
    ELSE IF ~resp.read_ok THEN Returned([u EXCEPT !.tr = "read_err"])
    ELSE AfterText([u EXCEPT !.tr = "ok", !.raw = resp.body,
                             !.text = ExtractText(resp.body)])

\* Mutant: a request that could not be sent is sent once more.
AfterTranscription_Retry(u, resp) ==
    IF resp.send # "ok"
    THEN IF u.tr_requests < 2
         THEN [u EXCEPT !.tr_requests = @ + 1]
         ELSE Returned([u EXCEPT !.tr = "send_err"])
    ELSE IF ~IsSuccess(resp.status) THEN Returned([u EXCEPT !.tr = "status"])
    ELSE IF ~resp.read_ok THEN Returned([u EXCEPT !.tr = "read_err"])
    ELSE LET text == ExtractText(resp.body)
             got == [u EXCEPT !.tr = "ok", !.raw = resp.body, !.text = text]
         IN  IF text # <<>> THEN AfterText(got) ELSE Returned(got)

\* The transcription response arrives (main.rs 622-636).
AfterTranscription(u, resp) ==
    IF resp.send # "ok" THEN Returned([u EXCEPT !.tr = "send_err"])
    ELSE IF ~IsSuccess(resp.status) THEN Returned([u EXCEPT !.tr = "status"])
    ELSE IF ~resp.read_ok THEN Returned([u EXCEPT !.tr = "read_err"])
    ELSE LET text == ExtractText(resp.body)
             got == [u EXCEPT !.tr = "ok", !.raw = resp.body, !.text = text]
         IN  IF text # <<>> THEN AfterText(got) ELSE Returned(got)

\* polish_text(&text, config).unwrap_or_else(|| text.clone()) (main.rs 639)
AfterPolish(u, resp) ==
    LET r == polish_text(resp)
    IN  [u EXCEPT !.pol = IF r[1] THEN "Some" ELSE "None",
                  !.final_text = IF r[1] THEN r[2] ELSE u.text,
                  !.pc = "clipboard"]

\* What Clipboard::new() and set_text can answer.
ClipboardOutcomes == {"open_err", "set_err", "ok"}

\* clipboard.set_text(&final_text): a failed write is taken to leave the
\* clipboard as it was.
ClipboardAfter(board, u, outcome) ==
    IF outcome = "ok" THEN u.final_text ELSE board

\* Mutant: the keystroke is sent whatever the clipboard write answered.
AfterClipboard_PasteAnyway(u, outcome, board) ==
    IF outcome = "ok"
    THEN [u EXCEPT !.clip = "ok", !.clip_writes = @ + 1, !.written = board,
                   !.pc = "paste"]
    ELSE [u EXCEPT !.clip = outcome, !.pc = "paste"]

\* if let Ok(mut clipboard) = Clipboard::new() { if set_text(..).is_ok() {
\* paste_with_cgevent() } } (main.rs 644-648)
AfterClipboard(u, outcome, board) ==
    IF outcome = "ok"
    THEN [u EXCEPT !.clip = "ok", !.clip_writes = @ + 1, !.written = board,
                   !.pc = "paste"]
    ELSE Returned([u EXCEPT !.clip = outcome])

\* What creating the event source and the two keyboard events can answer.
PasteOutcomes == {"source_err", "event_err", "ok"}

\* paste_with_cgevent (main.rs 655-672): key-down and key-up of Cmd+V are
\* posted together, or nothing is.
AfterPaste(u, outcome) ==
    IF outcome = "ok"
    THEN Returned([u EXCEPT !.keystrokes = @ + 1])
    ELSE Returned(u)

unitFrame == <<hotkey, tapVars, audioVars, logVars, encoder>>

\* Mutant: the thread starts only once the callback that spawned threads is
\* back in the run loop.
UnitEncode_WaitsForTap(i) ==
    /\ units[i].pc = "encode"
    /\ tap_pc = "idle"
    /\ \E encoded_ok \in BOOLEAN :
         units' = [units EXCEPT ![i] = AfterEncode(units[i], encoded_ok)]
    /\ UNCHANGED <<unitFrame, clipboard>>

UnitEncode(i) ==
    /\ units[i].pc = "encode"
    /\ \E encoded_ok \in BOOLEAN :
         units' = [units EXCEPT ![i] = AfterEncode(units[i], encoded_ok)]
    /\ UNCHANGED <<unitFrame, clipboard>>

UnitTranscribed(i) ==
    /\ units[i].pc = "transcribe"
    /\ \E resp \in TrResponses :
         units' = [units EXCEPT ![i] = AfterTranscription(units[i], resp)]
    /\ UNCHANGED <<unitFrame, clipboard>>

UnitPolished(i) ==
    /\ units[i].pc = "polish"
    /\ \E resp \in PolishResponses :
         units' = [units EXCEPT ![i] = AfterPolish(units[i], resp)]
    /\ UNCHANGED <<unitFrame, clipboard>>

UnitClipboard(i) ==
    /\ units[i].pc = "clipboard"
    /\ \E outcome \in ClipboardOutcomes :
         LET board == ClipboardAfter(clipboard, units[i], outcome)
         IN  /\ clipboard' = board
             /\ units' = [units EXCEPT ![i] = AfterClipboard(units[i], outcome, board)]
    /\ UNCHANGED unitFrame

UnitPaste(i) ==
    /\ units[i].pc = "paste"
    /\ \E outcome \in PasteOutcomes :
         units' = [units EXCEPT ![i] = AfterPaste(units[i], outcome)]
    /\ UNCHANGED <<unitFrame, clipboard>>

\* ------------------------------------------------------------------------
\* Specification
\* ------------------------------------------------------------------------

Next ==
    \/ \E flags \in SUBSET SnapshotBits : EventTapCallback(flags)
    \/ StopRecordingWake
    \/ DriverCapture
    \/ AudioCallback
    \/ \E i \in DOMAIN units : UnitEncode(i)
    \/ \E i \in DOMAIN units : UnitTranscribed(i)
    \/ \E i \in DOMAIN units : UnitPolished(i)
    \/ \E i \in DOMAIN units : UnitClipboard(i)
    \/ \E i \in DOMAIN units : UnitPaste(i)

Spec == Init /\ [][Next]_vars

\* The threads one behaviour can spawn: one per Released edge.
MaxUnits == MaxEdges \div 2

\* The next statement of thread i.
UnitStep(i) ==
    /\ i \in DOMAIN units
    /\ \/ UnitEncode(i)
       \/ UnitTranscribed(i)
       \/ UnitPolished(i)
       \/ UnitClipboard(i)
       \/ UnitPaste(i)

\* The same program, with every spawned thread scheduled fairly and every
\* request answered or timed out; the key events and the audio driver are
\* under no obligation.
LiveSpec == Spec /\ \A i \in 1..MaxUnits : WF_vars(UnitStep(i))

\* ------------------------------------------------------------------------
\* The key path on its own, for every hotkey the configuration can name
\* ------------------------------------------------------------------------

\* Config.hotkey: the five names hotkey_flag knows and one it does not.
HotkeyStrings == {"fn", "option", "control", "shift", "command", "f13"}

\* The modifier bits a snapshot can hold.
ModifierBits ==
    {FN_KEY_FLAG, OPTION_KEY_FLAG, CONTROL_KEY_FLAG, SHIFT_KEY_FLAG, COMMAND_KEY_FLAG}

InitConfig ==
    /\ hotkey \in HotkeyStrings
    /\ encoder = EncoderIdle
    /\ was_pressed = FALSE
    /\ polish_latched = FALSE
    /\ tap_pc = "idle"
    /\ tap_flags = {}
    /\ stop_polish = FALSE
    /\ AUDIO_STREAM = "none"
    /\ sample_rate = DefaultSampleRate
    /\ audio_buffer = <<>>
    /\ in_flight = <<>>
    /\ units = <<>>
    /\ clipboard = OldClipboard
    /\ edges = <<>>
    /\ last_level = FALSE
    /\ held_polish = FALSE

\* The callback alone: the driver delivers nothing, so no thread is spawned.
NextConfig ==
    \/ \E flags \in SUBSET ModifierBits : EventTapCallback(flags)
    \/ StopRecordingWake

ConfigSpec == InitConfig /\ [][NextConfig]_vars

\* ------------------------------------------------------------------------
\* encode_wav on its own: one call on a recording, statement by statement
\* ------------------------------------------------------------------------

\* Sample values of the recordings, in thousandths.
SampleValues == {-500, -100, 0, 100, 500}

RECURSIVE SeqsUpTo(_, _)
\* The sequences over S of length at most n.
SeqsUpTo(S, n) ==
    IF n = 0 THEN {<<>>}
    ELSE LET shorter == SeqsUpTo(S, n - 1)
         IN  shorter \cup {Append(q, x) : q \in shorter, x \in S}

\* The recordings handed to encode_wav: stop_recording spawns no thread for an
\* empty one.
Recordings == SeqsUpTo(SampleValues, MaxSamples) \ {<<>>}

InitEncode ==
    /\ \E samples \in Recordings, rate \in {DefaultSampleRate, DeviceSampleRate} :
         encoder = [EncoderIdle EXCEPT !.pc = "enhance", !.samples = samples,
                                       !.sample_rate = rate]
    /\ hotkey \in Hotkeys
    /\ was_pressed = FALSE
    /\ polish_latched = FALSE
    /\ tap_pc = "idle"
    /\ tap_flags = {}
    /\ stop_polish = FALSE
    /\ AUDIO_STREAM = "none"
    /\ sample_rate = DefaultSampleRate
    /\ audio_buffer = <<>>
    /\ in_flight = <<>>
    /\ units = <<>>
    /\ clipboard = OldClipboard
    /\ edges = <<>>
    /\ last_level = FALSE
    /\ held_polish = FALSE

\* let enhanced = enhance_audio(samples, sample_rate) (main.rs 775)
EncodeWavEnhance ==
    /\ encoder.pc = "enhance"
    /\ encoder' = [encoder EXCEPT
          !.filtered = Filtered(encoder.samples, encoder.sample_rate),
          !.enhanced = enhance_audio(encoder.samples, encoder.sample_rate),
          !.pc = "write"]
    /\ UNCHANGED <<hotkey, tapVars, audioVars, units, clipboard, logVars>>

\* The writer takes every converted sample and is finalized, or one of its calls
\* fails and encode_wav returns the error (main.rs 784-794).
EncodeWavWrite ==
    /\ encoder.pc = "write"
    /\ \E write_ok \in BOOLEAN :
         encoder' = [encoder EXCEPT
           !.pcm = IF write_ok
                   THEN [i \in 1..Len(encoder.enhanced) |-> SampleToI16(encoder.enhanced[i])]
                   ELSE <<>>,
           !.result = IF write_ok THEN "Ok" ELSE "Err",
           !.pc = "done"]
    /\ UNCHANGED <<hotkey, tapVars, audioVars, units, clipboard, logVars>>

NextEncode == EncodeWavEnhance \/ EncodeWavWrite

EncodeSpec == InitEncode /\ [][NextEncode]_vars

\* ------------------------------------------------------------------------
\* Reading the log
\* ------------------------------------------------------------------------

PressedEdges == {i \in 1..Len(edges) : edges[i].kind = "Pressed"}

ReleasedEdges == {i \in 1..Len(edges) : edges[i].kind = "Released"}

\* The recording an edge belongs to: the Pressed edges up to it.
SessionOf(i) == Cardinality({j \in 1..i : edges[j].kind = "Pressed"})

\* The units spawned for a recording.
UnitsOf(session) == {k \in DOMAIN units : units[k].session = session}

\* The units that have not finished.
InProgress == {k \in DOMAIN units : units[k].pc # "done"}

\* ------------------------------------------------------------------------
\* C1
\* ------------------------------------------------------------------------

\* C1: the start_recording (Pressed) and stop_recording (Released) calls
\* strictly alternate, the first one is a Pressed, and every call was made on
\* a snapshot whose hotkey level differs from the level of the snapshot before
\* it (a snapshot with an unchanged level triggers neither).
C1_EdgesAlternate ==
    \A i \in 1..Len(edges) :
        /\ edges[i].kind = IF i % 2 = 1 THEN "Pressed" ELSE "Released"
        /\ edges[i].prev # edges[i].cur
        /\ edges[i].cur = (edges[i].kind = "Pressed")

\* Two complete sessions were handled, the first one with polish.
C1_Witness ==
    /\ Len(edges) = 4
    /\ edges[4].returned
    /\ edges[2].polish

\* ------------------------------------------------------------------------
\* C2
\* ------------------------------------------------------------------------

\* C2: the polish flag passed to stop_recording on a Released edge is true if
\* and only if a snapshot from the Pressed one (inclusive) to the Released one
\* (exclusive) had the polish bit set while the hotkey was held; a latch set in
\* an earlier session does not reach a later one.
C2_PolishIffHeldInSession ==
    \A i \in ReleasedEdges : edges[i].polish = edges[i].held

\* A session released with polish is followed by one released without.
C2_Witness ==
    /\ Len(edges) = 4
    /\ edges[2].kind = "Released" /\ edges[2].polish
    /\ edges[4].kind = "Released" /\ ~edges[4].polish

\* ------------------------------------------------------------------------
\* C3
\* ------------------------------------------------------------------------

\* C3: every Released edge whose snapshot is non-empty spawns exactly one unit,
\* which carries that snapshot; a Released edge with an empty snapshot, or one
\* whose stop_recording has not returned, has no unit; every unit belongs to a
\* Released edge, so the units never outnumber the Released edges.
C3_OneUnitPerRecording ==
    /\ \A i \in ReleasedEdges :
         IF edges[i].returned /\ edges[i].snapshot # <<>>
         THEN /\ Cardinality(UnitsOf(SessionOf(i))) = 1
              /\ \A k \in UnitsOf(SessionOf(i)) : units[k].audio = edges[i].snapshot
         ELSE UnitsOf(SessionOf(i)) = {}
    /\ \A k \in DOMAIN units :
         \E i \in ReleasedEdges : SessionOf(i) = units[k].session
    /\ Len(units) <= Cardinality(ReleasedEdges)

\* Two recordings with samples were released, and each has its unit.
C3_Witness ==
    /\ Len(edges) = 4
    /\ edges[2].snapshot # <<>>
    /\ edges[4].returned /\ edges[4].snapshot # <<>>
    /\ Len(units) = 2

\* ------------------------------------------------------------------------
\* C4
\* ------------------------------------------------------------------------

\* C4: a Released edge whose snapshot is empty spawns no unit; as long as every
\* recording so far ended with an empty buffer there is no unit at all, hence no
\* HTTP request, no clipboard write and no keystroke.
C4_EmptyBufferNoProcessing ==
    /\ \A i \in ReleasedEdges :
         edges[i].returned /\ edges[i].snapshot = <<>> => UnitsOf(SessionOf(i)) = {}
    /\ (\A i \in ReleasedEdges : edges[i].snapshot = <<>>)
         => units = <<>> /\ clipboard = OldClipboard

\* A stream existed and was played and paused, and the callback appended
\* nothing between the Pressed and the Released edge.
C4_Witness ==
    /\ Len(edges) = 2
    /\ edges[2].returned /\ edges[2].snapshot = <<>>
    /\ AUDIO_STREAM = "paused"
    /\ tap_pc = "idle"

\* ------------------------------------------------------------------------
\* C5
\* ------------------------------------------------------------------------

\* C5 as stated: at no moment are two background units in progress.
C5_NonOverlapping == Cardinality(InProgress) <= 1

\* C5 as amended: at no moment are two background units in progress for the
\* same recording, and a unit in progress belongs to a recording whose
\* stop_recording has returned; units of different recordings may be in
\* progress at the same time.
C5_NoTwoUnitsOfOneRecording ==
    /\ \A k, l \in InProgress : k # l => units[k].session # units[l].session
    /\ \A k \in InProgress :
         \E i \in ReleasedEdges : SessionOf(i) = units[k].session /\ edges[i].returned

\* The units of two recordings are in progress together.
C5_Witness ==
    /\ Cardinality(InProgress) = 2
    /\ \E k, l \in InProgress : units[k].session # units[l].session

\* ------------------------------------------------------------------------
\* C6
\* ------------------------------------------------------------------------

\* Unit k posts its Cmd+V keystrokes in this step.
PostsKeystrokes(k) ==
    /\ units[k].pc = "paste"
    /\ units'[k].keystrokes = units[k].keystrokes + 1

\* C6: when a unit posts its Cmd+V keystrokes, the clipboard holds that unit's
\* final text.
C6_PasteOwnText ==
    [][\A k \in DOMAIN units : PostsKeystrokes(k) => clipboard = units[k].final_text]_vars

\* ------------------------------------------------------------------------
\* C7
\* ------------------------------------------------------------------------

\* C7: a unit posts the keystrokes only after its own clipboard write
\* succeeded; a unit whose clipboard could not be opened or written posts none
\* and ends.
C7_PasteOnlyAfterClipboardWrite ==
    \A k \in DOMAIN units :
        /\ units[k].pc = "paste" \/ units[k].keystrokes > 0
             => units[k].clip = "ok" /\ units[k].clip_writes = 1
        /\ units[k].clip \in {"open_err", "set_err"}
             => units[k].pc = "done" /\ units[k].keystrokes = 0

\* One unit failed to write the clipboard and ended, another wrote and pasted.
C7_Witness ==
    /\ \E k \in DOMAIN units : units[k].clip = "set_err" /\ units[k].pc = "done"
    /\ \E k \in DOMAIN units : units[k].keystrokes = 1

\* ------------------------------------------------------------------------
\* C8
\* ------------------------------------------------------------------------

\* A transport failure, a timeout or a non-2xx status of the transcription call.
TranscriptionFailed(resp) == resp.send # "ok" \/ ~IsSuccess(resp.status)

NoDelivery(u) ==
    /\ u.pc = "done"
    /\ u.polish_requests = 0
    /\ u.clip_writes = 0
    /\ u.keystrokes = 0

C8_NoDeliveryAfterFailure ==
    /\ \A k \in DOMAIN units :
         units[k].pc = "transcribe" =>
           \A resp \in TrResponses :
               TranscriptionFailed(resp) => NoDelivery(AfterTranscription(units[k], resp))
    /\ \A k \in DOMAIN units :
         units[k].tr \in {"send_err", "status"} => NoDelivery(units[k])

C8_KeyPathUntouched ==
    (\E k \in DOMAIN units :
        /\ units[k].pc = "transcribe"
        /\ units'[k].tr \in {"send_err", "status"})
    => UNCHANGED <<tapVars, audioVars, edges, clipboard>>

\* C8: a unit whose transcription call fails at transport level, times out or
\* returns a non-2xx status ends with no polish request, no clipboard write and
\* no keystroke, and the step in which it fails leaves the state of the
\* key-event path (tracker, stream, buffer, edges) as it was.
C8_TranscriptionFailureAborts ==
    []C8_NoDeliveryAfterFailure /\ [][C8_KeyPathUntouched]_vars

\* A unit that was to polish failed on the status and ended, another failed
\* on the transport.
C8_Witness ==
    /\ Len(units) = 2
    /\ units[1].tr = "status" /\ units[1].pc = "done"
    /\ units[2].tr = "send_err"
    /\ units[1].polish

\* ------------------------------------------------------------------------
\* C9
\* ------------------------------------------------------------------------

\* A body that starts with { and is not parseable JSON or has no string text.
NoStringText(raw) ==
    StartsWithBrace(raw) /\ ~JsonTextField(JsonParse(Trim(raw)))[1]

\* The running units whose successful transcription response was such a body.
GotNoStringText ==
    {k \in InProgress : units[k].tr = "ok" /\ NoStringText(units[k].raw)}

PolishFailed(resp) ==
    \/ resp.send # "ok"
    \/ ~IsSuccess(resp.status)
    \/ resp.json \in {"malformed", "empty"}

\* C10: whatever way the polish call fails, the unit goes on to the clipboard
\* write with the original transcript as its final text, and the text its
\* write puts on the clipboard is that transcript.
C10_PolishFailureFallsBack ==
    /\ \A k \in DOMAIN units :
         units[k].pc = "polish" =>
           \A resp \in PolishResponses :
               PolishFailed(resp) =>
                 LET v == AfterPolish(units[k], resp)
                 IN  /\ v.pc = "clipboard"
                     /\ v.pol = "None"
                     /\ v.final_text = units[k].text
    /\ \A k \in DOMAIN units :
         units[k].pol = "None" =>
           /\ units[k].pc \in {"clipboard", "paste", "done"}
           /\ units[k].pc = "done" => units[k].clip # "none"
           /\ units[k].pc # "done" =>
                units[k].text # <<>> /\ units[k].final_text = units[k].text
           /\ units[k].pc = "paste" => units[k].written = units[k].text

\* A unit whose polish call failed wrote its transcript to the clipboard.
C10_Witness ==
    \E k \in DOMAIN units :
        /\ units[k].polish
        /\ units[k].pol = "None"
        /\ units[k].pc = "paste"
        /\ units[k].written = units[k].text
        /\ clipboard = units[k].text

\* ------------------------------------------------------------------------
\* C11
\* ------------------------------------------------------------------------

\* Bodies whose transcript is empty: nothing, whitespace, {"text":""}.
EmptyTranscriptBodies ==
    { <<>>, <<" ">>, <<" ", " ">>, <<"{", "t", "e", "}">>, <<" ", "{", "t", "e", "}", " ">> }

\* A successful transcription response with the given body.
OkResponse(body) == [send |-> "ok", status |-> 200, read_ok |-> TRUE, body |-> body]

\* C11: a successful transcription response whose transcript is empty ends the
\* unit with no polish request, no clipboard write and no keystroke; a unit
\* that is past the transcription and still running has a non-empty transcript.
C11_EmptyTranscriptAborts ==
    /\ \A k \in DOMAIN units :
         units[k].pc = "transcribe" =>
           \A body \in Bodies \cup EmptyTranscriptBodies :
               ExtractText(body) = <<>>
                 => NoDelivery(AfterTranscription(units[k], OkResponse(body)))
    /\ \A k \in InProgress :
         units[k].pc \in {"polish", "clipboard", "paste"} => units[k].text # <<>>
    /\ \A k \in DOMAIN units :
         units[k].tr = "ok" /\ units[k].pc = "done" /\ units[k].clip = "none"
           => NoDelivery(units[k])

\* A unit that was to polish got a successful response and ended without
\* touching the clipboard: its transcript was empty.
C11_Witness ==
    \E k \in DOMAIN units :
        /\ units[k].polish
        /\ units[k].tr = "ok"
        /\ units[k].pc = "done"
        /\ units[k].clip = "none"
        /\ units[k].polish_requests = 0

\* ------------------------------------------------------------------------
\* C12
\* ------------------------------------------------------------------------

\* The Pressed edges whose start_recording called init_audio_stream and got no
\* stream.
FailedPresses == {i \in PressedEdges : edges[i].init = "failed"}

\* C12: after a Pressed edge whose stream creation failed no stream exists and
\* nothing is delivered; the Released edge that follows it finds an empty
\* buffer and spawns no unit; and so for every cycle in which creation fails.
C12_NoDeviceNoUnit ==
    \A i \in FailedPresses :
        /\ \A j \in PressedEdges : j < i => edges[j].init = "failed"
        /\ i = Len(edges) =>
             AUDIO_STREAM = "none" /\ audio_buffer = <<>> /\ in_flight = <<>>
        /\ i < Len(edges) =>
             /\ edges[i + 1].kind = "Released"
             /\ edges[i + 1].returned => edges[i + 1].snapshot = <<>>
        /\ UnitsOf(SessionOf(i)) = {}

\* Stream creation failed in two cycles, the build of the stream at least once.
C12_Witness ==
    /\ Len(edges) = 4
    /\ edges[1].init = "failed"
    /\ edges[3].init = "failed"
    /\ edges[4].returned
    /\ sample_rate = DeviceSampleRate
    /\ units = <<>>

\* ------------------------------------------------------------------------
\* C13
\* ------------------------------------------------------------------------

\* C13: the callback's handling of an edge contains no blocking step: the
\* callback is never suspended, and every start_recording or stop_recording it
\* called has returned.
C13_CallbackNeverBlocks ==
    /\ tap_pc # "sleep"
    /\ \A i \in 1..Len(edges) : edges[i].returned

\* ------------------------------------------------------------------------
\* C14
\* ------------------------------------------------------------------------

\* The peak amplitude of a signal: max |s|.
PeakAmplitude(signal) == FoldMax(signal, 0)

\* C14: when the post-filter peak p is small enough that 0.707 / p exceeds 4.0,
\* every output sample of enhance_audio is the filtered sample times 4.0,
\* clamped to [-1, 1].
C14_GainCappedAtFour ==
    encoder.pc \in {"write", "done"} =>
        LET p == PeakAmplitude(encoder.filtered)
        IN  p > 0 /\ target * Unit > MaxGain * p =>
              \A i \in 1..Len(encoder.filtered) :
                  encoder.enhanced[i] =
                      Clamp(RoundDiv(encoder.filtered[i] * MaxGain, Unit))

\* ------------------------------------------------------------------------
\* C15
\* ------------------------------------------------------------------------

\* round(s * 32767), clamped to the signed 16-bit range.
RoundedI16(sample) ==
    Max(-I16Max - 1, Min(I16Max, RoundDiv(sample * I16Max, Unit)))

\* C15: every enhanced sample s is written as round(s * 32767), clamped to the
\* signed 16-bit range.
C15_SamplesRounded ==
    encoder.pc = "done" /\ encoder.result = "Ok" =>
        /\ Len(encoder.pcm) = Len(encoder.enhanced)
        /\ \A i \in 1..Len(encoder.enhanced) :
               encoder.pcm[i] = RoundedI16(encoder.enhanced[i])

\* ------------------------------------------------------------------------
\* C16
\* ------------------------------------------------------------------------

\* What a unit has done so far is a prefix of: transcription request, polish
\* request (when requested), clipboard write, keystroke; and a failed stage
\* other than polish is the last one.
StagesInOrder(u) ==
    /\ u.pc = "encode" => u.tr_requests = 0
    /\ u.tr_requests = 0 =>
         u.tr = "none" /\ u.polish_requests = 0 /\ u.clip = "none" /\ u.keystrokes = 0
    /\ u.pc = "transcribe" =>
         u.tr = "none" /\ u.polish_requests = 0 /\ u.clip = "none" /\ u.keystrokes = 0
    /\ u.polish_requests > 0 => u.tr = "ok"
    /\ u.pc = "polish" =>
         u.polish_requests = 1 /\ u.pol = "none" /\ u.clip = "none" /\ u.keystrokes = 0
    /\ u.pc = "clipboard" => u.tr = "ok" /\ u.clip = "none" /\ u.keystrokes = 0
    /\ u.clip # "none" => u.tr = "ok" /\ (u.polish => u.pol # "none")
    /\ u.pc = "paste" => u.clip = "ok" /\ u.keystrokes = 0
    /\ u.keystrokes > 0 => u.clip = "ok" /\ u.pc = "done"
    /\ u.tr \in {"send_err", "status", "read_err"} => NoDelivery(u)
    /\ u.clip \in {"open_err", "set_err"} => u.pc = "done" /\ u.keystrokes = 0

\* C16: the stages of a unit occur only in the order encode, transcription
\* request, optional polish request, clipboard write, keystroke; a failure of
\* a stage other than polish ends the unit; a failed encoding ends it before
\* any request is sent.
C16_StagesInOrder ==
    /\ \A k \in DOMAIN units : StagesInOrder(units[k])
    /\ \A k \in DOMAIN units :
         units[k].pc = "encode" =>
           LET v == AfterEncode(units[k], FALSE)
           IN  v.tr_requests = 0 /\ NoDelivery(v)

\* One unit went through every stage, another ended at a failed encoding.
C16_Witness ==
    /\ \E k \in DOMAIN units :
         /\ units[k].tr_requests = 1 /\ units[k].polish_requests = 1
         /\ units[k].clip_writes = 1 /\ units[k].keystrokes = 1
    /\ \E k \in DOMAIN units : units[k].pc = "done" /\ units[k].tr_requests = 0

\* ------------------------------------------------------------------------
\* C17
\* ------------------------------------------------------------------------

\* C17: a unit sends at most one transcription request and at most one polish
\* request, whatever the requests answer.
C17_NoRetry ==
    \A k \in DOMAIN units :
        /\ units[k].tr_requests <= 1
        /\ units[k].polish_requests <= 1
        /\ units[k].tr # "none" => units[k].tr_requests = 1
        /\ units[k].pol # "none" => units[k].polish_requests = 1

\* One unit's transcription request timed out or failed on the transport,
\* another's polish request failed; each was sent once.
C17_Witness ==
    /\ \E k \in DOMAIN units : units[k].tr = "send_err" /\ units[k].tr_requests = 1
    /\ \E k \in DOMAIN units : units[k].pol = "None" /\ units[k].polish_requests = 1

\* ------------------------------------------------------------------------
\* C18
\* ------------------------------------------------------------------------

\* C18: a unit sends a polish request if and only if its polish flag is true
\* and its transcription succeeded with a non-empty transcript; with the flag
\* false the text written to the clipboard is the transcript.
C18_PolishIffRequested ==
    /\ \A k \in DOMAIN units :
         units[k].pc = "transcribe" =>
           \A resp \in TrResponses :
               LET v == AfterTranscription(units[k], resp)
                   succeeded == /\ resp.send = "ok" /\ IsSuccess(resp.status)
                                /\ resp.read_ok /\ ExtractText(resp.body) # <<>>
               IN  /\ v.polish_requests = 1 <=> units[k].polish /\ succeeded
                   /\ ~units[k].polish /\ succeeded
                        => v.pc = "clipboard" /\ v.final_text = ExtractText(resp.body)
    /\ \A k \in DOMAIN units :
         /\ units[k].polish_requests > 0 => units[k].polish /\ units[k].tr = "ok"
         /\ units[k].polish /\ units[k].tr = "ok" /\ units[k].pc # "done"
              => units[k].polish_requests = 1
         /\ ~units[k].polish /\ units[k].pc \in {"clipboard", "paste"}
              => units[k].final_text = units[k].text /\ units[k].pol = "none"
         /\ ~units[k].polish /\ units[k].pc = "paste" => units[k].written = units[k].text

\* A unit with the flag sent its polish request, a unit without it wrote its
\* transcript to the clipboard.
C18_Witness ==
    /\ \E k \in DOMAIN units : units[k].polish /\ units[k].polish_requests = 1
    /\ \E k \in DOMAIN units :
         /\ ~units[k].polish
         /\ units[k].pc = "paste"
         /\ units[k].polish_requests = 0
         /\ units[k].written = units[k].text

\* ------------------------------------------------------------------------
\* C19
\* ------------------------------------------------------------------------

\* The Pressed edges whose start_recording created a stream.
CreatingPresses == {i \in PressedEdges : edges[i].init = "created"}

\* C19: at most one stream is ever created; init_audio_stream is called only
\* by start_recording on a Pressed edge before which no stream was created, and
\* every Pressed edge after the creating one uses the stream that exists.
C19_OneStream ==
    /\ Cardinality(CreatingPresses) <= 1
    /\ \A i \in 1..Len(edges) :
         edges[i].init # "skipped" =>
           /\ edges[i].kind = "Pressed"
           /\ \A j \in 1..(i - 1) : edges[j].init # "created"
    /\ \A i \in CreatingPresses :
         \A j \in (i + 1)..Len(edges) : edges[j].init = "skipped"
    /\ AUDIO_STREAM # "none" <=> CreatingPresses # {}

\* The first press created the stream and the second one plays it again.
C19_Witness ==
    /\ Len(edges) = 3
    /\ edges[1].init = "created"
    /\ edges[3].kind = "Pressed" /\ edges[3].init = "skipped"
    /\ AUDIO_STREAM = "playing"

\* ------------------------------------------------------------------------
\* C20
\* ------------------------------------------------------------------------

C21_NoStaleSamples ==
    \A i \in ReleasedEdges :
        \A n \in 1..Len(edges[i].snapshot) : edges[i].snapshot[n] = SessionOf(i)

\* ------------------------------------------------------------------------
\* C22
\* ------------------------------------------------------------------------

\* The Released edge of a unit's recording.
ReleaseOf(k) == CHOOSE i \in ReleasedEdges : SessionOf(i) = units[k].session

C22_DataIsReleaseData ==
    \A k \in DOMAIN units :
        /\ units[k].audio = edges[ReleaseOf(k)].snapshot
        /\ units[k].polish = edges[ReleaseOf(k)].polish

C22_DataUnchanged ==
    \A k \in DOMAIN units :
        /\ k \in DOMAIN units'
        /\ units'[k].audio = units[k].audio
        /\ units'[k].sample_rate = units[k].sample_rate
        /\ units'[k].polish = units[k].polish
        /\ units'[k].session = units[k].session

\* C22: the audio snapshot, the sample rate and the polish flag of a unit are
\* those of its Released edge and no step changes them: not a later Pressed
\* edge, not an append of the audio callback, not a step of another unit.
C22_UnitDataFrozen ==
    []C22_DataIsReleaseData /\ [][C22_DataUnchanged]_vars

\* The first unit is still running with its own snapshot and flag after a
\* second session cleared and refilled the buffer and was released with the
\* other flag.
C22_Witness ==
    /\ Len(units) = 2
    /\ units[1].pc \in {"transcribe", "polish", "clipboard", "paste"}
    /\ units[1].polish /\ ~units[2].polish
    /\ units[1].audio # audio_buffer
    /\ units[1].audio # units[2].audio

\* ------------------------------------------------------------------------
\* C23
\* ------------------------------------------------------------------------

\* Thread i was spawned.
Spawned(i) == i <= Len(units)

\* Thread i has returned: after its keystrokes or at a failed stage.
Terminated(i) == i <= Len(units) /\ units[i].pc = "done"

\* A running thread can always take its next step, whatever the key-event
\* thread, the audio thread and the other threads are doing.
C23_NeverWaits == \A k \in InProgress : ENABLED UnitStep(k)

HotkeyAlone == {hotkey_flag(hotkey)}

\* C24: for every configured hotkey the polish mask is the control bit, or the
\* shift bit when the hotkey is control; it is never the hotkey's mask, so a
\* snapshot holding the hotkey alone leaves the latch as it is, on the press
\* edge (reset) and after it.
C24_PolishMaskApartFromHotkey ==
    /\ polish_flag(hotkey) =
         IF hotkey = "control" THEN SHIFT_KEY_FLAG ELSE CONTROL_KEY_FLAG
    /\ polish_flag(hotkey) # hotkey_flag(hotkey)
    /\ KeyPressed(HotkeyAlone) /\ ~PolishHeld(HotkeyAlone)
    /\ LatchAfter(polish_latched, KeyPressed(HotkeyAlone), PolishHeld(HotkeyAlone))
         = polish_latched
    /\ LatchAfter(LatchOnPress(polish_latched), KeyPressed(HotkeyAlone),
                  PolishHeld(HotkeyAlone)) = FALSE
    /\ polish_latched => held_polish

\* With control as the hotkey, one session was released without polish and
\* the next one, in which shift was held, with it.
C24_Witness ==
    /\ hotkey = "control"
    /\ Len(edges) = 4
    /\ ~edges[2].polish
    /\ edges[4].polish
    /\ edges[4].returned

====
